---- MODULE Spec2Model ----
(***************************************************************************)
(* Model of the HomematicIP Prometheus exporter (src/exporter.py): the     *)
(* startup sequence, the `while True: e.collect()` poll loop, the event    *)
(* callback and the prometheus registry they both write to.                *)
(***************************************************************************)
EXTENDS Integers, Sequences, FiniteSets, TLC

(***************************************************************************)
(* Python values.  Every value is a record of one shape so that any two    *)
(* values can be compared: t is the Python type, n the number it carries   *)
(* (0/1 for a bool, the epoch for a datetime), s the characters of a str   *)
(* or the name of an enum member.                                          *)
(***************************************************************************)
None == [t |-> "none", n |-> 0, s |-> <<>>]

Num(k) == [t |-> "num", n |-> k, s |-> <<>>]

Bool(b) == [t |-> "bool", n |-> IF b THEN 1 ELSE 0, s |-> <<>>]

Str(chars) == [t |-> "str", n |-> 0, s |-> chars]

Datetime(epoch) == [t |-> "datetime", n |-> epoch, s |-> <<>>]

Enum(chars) == [t |-> "enum", n |-> 0, s |-> chars]

\* bool(x): None, 0, 0.0, False and '' are false, everything else is true;
\* a datetime and an enum member are always true.
Truthy(x) ==
    CASE x.t = "none" -> FALSE
      [] x.t = "num" -> x.n # 0
      [] x.t = "bool" -> x.n = 1
      [] x.t = "str" -> Len(x.s) > 0
      [] OTHER -> TRUE

\* float(x) succeeds on numbers and bools only (Gauge.set does float(value)).
CanFloat(x) == x.t \in {"num", "bool"}

Float(x) == x.n

UpperChars == <<"A","B","C","D","E","F","G","H","I","J","K","L","M",
                "N","O","P","Q","R","S","T","U","V","W","X","Y","Z">>

LowerChars == <<"a","b","c","d","e","f","g","h","i","j","k","l","m",
                "n","o","p","q","r","s","t","u","v","w","x","y","z">>

LowerChar(c) ==
    IF \E i \in DOMAIN UpperChars : UpperChars[i] = c
    THEN LowerChars[CHOOSE i \in DOMAIN UpperChars : UpperChars[i] = c]
    ELSE c

\* str.lower() on the characters of a string
Lower(chars) == [i \in DOMAIN chars |-> LowerChar(chars[i])]

\* str(x) for the values the exporter formats: a str is itself, a bool is
\* 'True'/'False', None is 'None', an enum member of the client library is
\* its name.
PyStr(x) ==
    CASE x.t = "str" -> x.s
      [] x.t = "enum" -> x.s
      [] x.t = "bool" -> IF x.n = 1 THEN <<"T","r","u","e">> ELSE <<"F","a","l","s","e">>
      [] OTHER -> <<"N","o","n","e">>


(***************************************************************************)
(* The metric registry (prometheus_client).  A series is the pair          *)
(* <<metric name, label values>>; reg maps the series that exist to their  *)
(* value.  An operation on it is <<kind, metric, label values, number>>:   *)
(*   "labels"  metric.labels(...): the child series is created at 0 when   *)
(*             it does not exist yet;                                      *)
(*   "set"     Gauge.set(v);      "inc"  Counter.inc() / Gauge.inc(v);     *)
(*   "clear"   metric.clear(): every series of the metric is removed (the  *)
(*             exporter never calls it).                                   *)
(***************************************************************************)
Key(op) == <<op[2], op[3]>>

ApplyOp(r, op) ==
    IF op[1] = "clear"
    THEN [x \in {k \in DOMAIN r : k[1] # op[2]} |-> r[x]]
    ELSE
    LET k == Key(op)
        old == IF k \in DOMAIN r THEN r[k] ELSE 0
        new == CASE op[1] = "set" -> op[4]
                 [] op[1] = "inc" -> old + op[4]
                 [] OTHER -> old
    IN [x \in DOMAIN r \cup {k} |-> IF x = k THEN new ELSE r[x]]

RECURSIVE ApplyOps(_, _)
ApplyOps(r, ops) ==
    IF ops = <<>> THEN r ELSE ApplyOps(ApplyOp(r, Head(ops)), Tail(ops))

(***************************************************************************)
(* A routine of the exporter is modelled by what it does to the registry:  *)
(* [w |-> the operations it performed, in order, ok |-> FALSE iff it       *)
(* raised].  Then(a, b) is "a; b": b runs only if a did not raise.         *)
(***************************************************************************)
Done == [w |-> <<>>, ok |-> TRUE]

Raise == [w |-> <<>>, ok |-> FALSE]

Then(a, b) == IF a.ok THEN [w |-> a.w \o b.w, ok |-> b.ok] ELSE a

\* metric.labels(...).set(value): the child is looked up (created), then
\* float(value) raises TypeError for a value that is no number.
GaugeSetInc(metric, labelvalues, value) ==
    [w |-> << <<"labels", metric, labelvalues, 0>> >>
           \o (IF CanFloat(value)
               THEN << <<"inc", metric, labelvalues, Float(value)>> >>
               ELSE <<>>),
     ok |-> CanFloat(value)]

GaugeSet(metric, labelvalues, value) ==
    [w |-> << <<"labels", metric, labelvalues, 0>> >>
           \o (IF CanFloat(value)
               THEN << <<"set", metric, labelvalues, Float(value)>> >>
               ELSE <<>>),
     ok |-> CanFloat(value)]

\* metric.labels(...).inc()
CounterInc(metric, labelvalues) ==
    [w |-> << <<"labels", metric, labelvalues, 0>>,
              <<"inc", metric, labelvalues, 1>> >>,
     ok |-> TRUE]

(***************************************************************************)
(* The device classes of the client library that the exporter imports and  *)
(* tests with isinstance, each with the imported classes it derives from.  *)
(***************************************************************************)
Bases(cls) ==
    CASE cls = "WallMountedThermostatPro" ->
             {"WallMountedThermostatPro", "TemperatureHumiditySensorDisplay"}
      [] cls = "SwitchMeasuring" -> {"SwitchMeasuring", "Switch"}
      [] OTHER -> {cls}

IsInstance(d, classes) == Bases(d.cls) \cap classes # {}

ThermostatClasses ==
    {"WallMountedThermostatPro", "TemperatureHumiditySensorDisplay",
     "TemperatureHumiditySensorWithoutDisplay", "TemperatureHumiditySensorOutdoor"}

(***************************************************************************)
(* The per-capability write routines.                                      *)
(***************************************************************************)
\* a thermostat routine that stops at the first falsy field
CollectThermostatMetricsStopAtFalsy(room, device) ==
    IF ~Truthy(device.actualTemperature) THEN Done
    ELSE Then(GaugeSet("temperature_actual", <<room, device.label>>, device.actualTemperature),
         IF ~Truthy(device.setPointTemperature) THEN Done
         ELSE Then(GaugeSet("temperature_setpoint", <<room, device.label>>, device.setPointTemperature),
              IF ~Truthy(device.humidity) THEN Done
              ELSE GaugeSet("humidity_actual", <<room, device.label>>, device.humidity)))

CollectThermostatMetrics(room, device) ==
    Then(IF Truthy(device.actualTemperature)
         THEN GaugeSet("temperature_actual", <<room, device.label>>, device.actualTemperature)
         ELSE Done,
    Then(IF Truthy(device.setPointTemperature)
         THEN GaugeSet("temperature_setpoint", <<room, device.label>>, device.setPointTemperature)
         ELSE Done,
         IF Truthy(device.humidity)
         THEN GaugeSet("humidity_actual", <<room, device.label>>, device.humidity)
         ELSE Done))

\* a heating routine that tests each field with `if`, as the thermostat one does
CollectHeatingMetricsIfTruthy(room, device) ==
    Then(IF Truthy(device.valveActualTemperature)
         THEN GaugeSet("temperature_actual", <<room, device.label>>, device.valveActualTemperature)
         ELSE Done,
    Then(IF Truthy(device.setPointTemperature)
         THEN GaugeSet("temperature_setpoint", <<room, device.label>>, device.setPointTemperature)
         ELSE Done,
    Then(IF Truthy(device.automaticValveAdaptionNeeded)
         THEN GaugeSet("valve_adaption_needed", <<room, device.label>>, device.automaticValveAdaptionNeeded)
         ELSE Done,
    Then(IF Truthy(device.temperatureOffset)
         THEN GaugeSet("temperature_offset", <<room, device.label>>, device.temperatureOffset)
         ELSE Done,
         IF Truthy(device.valvePosition)
         THEN GaugeSet("valve_position", <<room, device.label>>, device.valvePosition)
         ELSE Done))))

CollectHeatingMetrics(room, device) ==
    Then(GaugeSet("temperature_actual", <<room, device.label>>, device.valveActualTemperature),
    Then(GaugeSet("temperature_setpoint", <<room, device.label>>, device.setPointTemperature),
    Then(GaugeSet("valve_adaption_needed", <<room, device.label>>, device.automaticValveAdaptionNeeded),
    Then(GaugeSet("temperature_offset", <<room, device.label>>, device.temperatureOffset),
         GaugeSet("valve_position", <<room, device.label>>, device.valvePosition)))))

\* device info keyed by the device type as reported, not lower-cased
CollectDeviceInfoMetricsNoLower(room, device) ==
    IF device.deviceType.t # "str" THEN Raise
    ELSE
    Then(GaugeSet("device_info",
                  <<room, device.label, device.deviceType.s,
                    PyStr(device.firmwareVersion), PyStr(device.permanentlyReachable)>>,
                  Num(1)),
         IF Truthy(device.lastStatusUpdate)
         THEN GaugeSet("last_status_update", <<room, device.label>>,
                       Num(device.lastStatusUpdate.n))
         ELSE Done)

\* device info that drops the metric's old series before writing the new one
CollectDeviceInfoMetricsClearing(room, device) ==
    IF device.deviceType.t # "str" THEN Raise
    ELSE
    Then([w |-> << <<"clear", "device_info", <<>>, 0>> >>, ok |-> TRUE],
    Then(GaugeSet("device_info",
                  <<room, device.label, Lower(device.deviceType.s),
                    PyStr(device.firmwareVersion), PyStr(device.permanentlyReachable)>>,
                  Num(1)),
         IF Truthy(device.lastStatusUpdate)
         THEN GaugeSet("last_status_update", <<room, device.label>>,
                       Num(device.lastStatusUpdate.n))
         ELSE Done))

\* device.deviceType.lower() raises AttributeError when deviceType is None
\* (line 211, before any write); lastStatusUpdate.timestamp() is the epoch.
CollectDeviceInfoMetrics(room, device) ==
    IF device.deviceType.t # "str" THEN Raise
    ELSE
    Then(GaugeSet("device_info",
                  <<room, device.label, Lower(device.deviceType.s),
                    PyStr(device.firmwareVersion), PyStr(device.permanentlyReachable)>>,
                  Num(1)),
         IF Truthy(device.lastStatusUpdate)
         THEN GaugeSet("last_status_update", <<room, device.label>>,
                       Num(device.lastStatusUpdate.n))
         ELSE Done)

\* a switch routine that adds to the gauge instead of setting it
CollectSwitchMetricsInc(room, device) ==
    GaugeSetInc("switch", <<room, device.label>>, device.on)

CollectSwitchMetrics(room, device) ==
    GaugeSet("switch", <<room, device.label>>, device.on)

CollectPowerMetrics(room, device) ==
    IF device.deviceType.t # "str" THEN Raise
    ELSE
    Then(GaugeSet("power_consumption", <<room, device.label>>, device.currentPowerConsumption),
         GaugeSet("energy_counter", <<room, device.label>>, device.energyCounter))


(***************************************************************************)
(* collect()'s dispatch on the device class, lines 276-288: the branches   *)
(* of the if/elif chain that run for a device, in order.                   *)
(***************************************************************************)
\* the same tests written as independent `if` statements
BranchesIndependentIfs(d) ==
    (IF IsInstance(d, ThermostatClasses) THEN <<"thermostat">> ELSE <<>>)
    \o (IF IsInstance(d, {"HeatingThermostat"}) THEN <<"heating">> ELSE <<>>)
    \o (IF IsInstance(d, {"SwitchMeasuring"}) THEN <<"switch_measuring">> ELSE <<>>)
    \o (IF IsInstance(d, {"Switch"}) THEN <<"switch">> ELSE <<>>)

Branches(d) ==
    IF IsInstance(d, ThermostatClasses) THEN <<"thermostat">>
    ELSE IF IsInstance(d, {"HeatingThermostat"}) THEN <<"heating">>
    ELSE IF IsInstance(d, {"SwitchMeasuring"}) THEN <<"switch_measuring">>
    ELSE IF IsInstance(d, {"Switch"}) THEN <<"switch">>
    ELSE <<>>

RunBranch(b, room, d) ==
    CASE b = "thermostat" -> CollectThermostatMetrics(room, d)
      [] b = "heating" -> CollectHeatingMetrics(room, d)
      [] b = "switch_measuring" ->
             Then(CollectPowerMetrics(room, d), CollectSwitchMetrics(room, d))
      [] OTHER -> CollectSwitchMetrics(room, d)

RECURSIVE RunBranches(_, _, _)
RunBranches(bs, room, d) ==
    IF bs = <<>> THEN Done
    ELSE Then(RunBranch(Head(bs), room, d), RunBranches(Tail(bs), room, d))

\* the body of the device loop, lines 273-288, for one device
CollectDevice(room, d) ==
    Then(CollectDeviceInfoMetrics(room, d), RunBranches(Branches(d), room, d))

\* str.format: a replacement field {i} with i >= the number of positional
\* arguments raises IndexError.
FormatRaises(fields, nargs) == \E i \in fields : i >= nargs

\* line 292: "... failed with: {1}".format(str(e))
WarningFormatRaises == FormatRaises({1}, 1)

\* line 295: 'waiting {}s ...'.format(interval)
WaitingFormatRaises == FormatRaises({0}, 1)

(***************************************************************************)
(* The event callback, lines 243-262, for one event of the list.           *)
(***************************************************************************)
DEVICE_CHANGED == Enum(<<"D","E","V","I","C","E","_","C","H","A","N","G","E","D">>)

DEVICE_REMOVED == Enum(<<"D","E","V","I","C","E","_","R","E","M","O","V","E","D">>)

EventMatches(event) ==
    /\ event.eventType = DEVICE_CHANGED
    /\ IsInstance(event.data, {"ShutterContact"})

EventLabels(event) ==
    <<event.data.label,
      Lower(PyStr(event.eventType)),
      Lower(PyStr(event.data.windowState)),
      Lower(PyStr(event.data.sabotage))>>

\* an event callback that counts every DEVICE_CHANGED event
CollectEventMetricsAnyDevice(event) ==
    IF event.eventType = DEVICE_CHANGED
    THEN CounterInc("device_event", EventLabels(event))
    ELSE Done

CollectEventMetrics(event) ==
    IF EventMatches(event)
    THEN CounterInc("device_event", EventLabels(event))
    ELSE Done

(***************************************************************************)
(* The upstream topology: the device records the access point may report.  *)
(***************************************************************************)
BaseDevice ==
    [cls |-> "Device", label |-> "", deviceType |-> None, firmwareVersion |-> None,
     permanentlyReachable |-> None, lastStatusUpdate |-> None,
     actualTemperature |-> None, setPointTemperature |-> None, humidity |-> None,
     valveActualTemperature |-> None, automaticValveAdaptionNeeded |-> None,
     temperatureOffset |-> None, valvePosition |-> None,
     on |-> None, currentPowerConsumption |-> None, energyCounter |-> None,
     windowState |-> None, sabotage |-> None]

Fw10 == Str(<<"1", ".", "0">>)

Fw11 == Str(<<"1", ".", "1">>)

\* wall thermostat: actual 21, setpoint exactly 0, no humidity reading
WthA ==
    [BaseDevice EXCEPT !.cls = "WallMountedThermostatPro", !.label = "WTH-1",
        !.deviceType = Str(<<"W", "T", "H">>), !.firmwareVersion = Fw10,
        !.permanentlyReachable = Bool(TRUE), !.lastStatusUpdate = Datetime(100),
        !.actualTemperature = Num(21), !.setPointTemperature = Num(0)]

\* the same thermostat later: actual exactly 0, setpoint 21, humidity 45
WthB ==
    [WthA EXCEPT !.lastStatusUpdate = Datetime(200),
        !.actualTemperature = Num(0), !.setPointTemperature = Num(21),
        !.humidity = Num(45)]

\* heating valve with every field exactly 0 / False, no last status update
TrvZero ==
    [BaseDevice EXCEPT !.cls = "HeatingThermostat", !.label = "TRV-1",
        !.deviceType = Str(<<"T", "R", "V">>), !.firmwareVersion = Fw10,
        !.permanentlyReachable = Bool(TRUE),
        !.valveActualTemperature = Num(0), !.setPointTemperature = Num(0),
        !.automaticValveAdaptionNeeded = Bool(FALSE), !.temperatureOffset = Num(0),
        !.valvePosition = Num(0)]

\* the same valve after a firmware update, unreachable, with non-zero readings
TrvOpen ==
    [TrvZero EXCEPT !.firmwareVersion = Fw11, !.permanentlyReachable = Bool(FALSE),
        !.lastStatusUpdate = Datetime(100),
        !.valveActualTemperature = Num(20), !.setPointTemperature = Num(21),
        !.automaticValveAdaptionNeeded = Bool(TRUE), !.temperatureOffset = Num(1),
        !.valvePosition = Num(42)]

\* heating valve that reports no valve position
TrvNoPosition ==
    [TrvOpen EXCEPT !.label = "TRV-2", !.valvePosition = None]

Psm ==
    [BaseDevice EXCEPT !.cls = "SwitchMeasuring", !.label = "PSM-1",
        !.deviceType = Str(<<"P", "S", "M">>), !.firmwareVersion = Fw10,
        !.permanentlyReachable = Bool(TRUE), !.lastStatusUpdate = Datetime(100),
        !.on = Bool(TRUE), !.currentPowerConsumption = Num(5), !.energyCounter = Num(7)]

Ps ==
    [BaseDevice EXCEPT !.cls = "Switch", !.label = "PS-1",
        !.deviceType = Str(<<"P", "s">>), !.firmwareVersion = Fw10,
        !.permanentlyReachable = Bool(TRUE), !.on = Bool(FALSE)]

WindowOpen == Enum(<<"O", "P", "E", "N">>)

WindowClosed == Enum(<<"C", "L", "O", "S", "E", "D">>)

\* contact sensor: no capability branch of the poll matches it
ScOpen ==
    [BaseDevice EXCEPT !.cls = "ShutterContact", !.label = "SC-1",
        !.deviceType = Str(<<"S", "C">>), !.firmwareVersion = Fw10,
        !.permanentlyReachable = Bool(FALSE), !.lastStatusUpdate = Datetime(100),
        !.windowState = WindowOpen, !.sabotage = Bool(FALSE)]

ScClosedSabotage ==
    [ScOpen EXCEPT !.windowState = WindowClosed, !.sabotage = Bool(TRUE)]

\* a device whose deviceType the access point did not report
NoType ==
    [BaseDevice EXCEPT !.cls = "Switch", !.label = "X-1", !.firmwareVersion = Fw10,
        !.permanentlyReachable = Bool(TRUE), !.on = Bool(TRUE)]

Catalogue == {WthA, WthB, TrvZero, TrvOpen, TrvNoPosition, Psm, Ps, ScOpen, NoType}

\* the installations: the records one access point reports during a run
Worlds == {{a, b} : a \in Catalogue, b \in Catalogue}

\* the installation explored together with the event path: a thermostat and
\* a valve whose processing raises
EventWorlds == {{WthA, TrvNoPosition}}

DeviceSeqs(w) ==
    {<<>>} \cup {<<a>> : a \in w}
           \cup {s \in {<<a, b>> : a \in w, b \in w} : s[1].label # s[2].label}

Range(seq) == {seq[i] : i \in DOMAIN seq}

GroupTypes == {"META", "HEATING"}

\* get_current_state() results: two groups; a device is in at most one of
\* them and device labels are unique within the topology.
AllSnapshots(w) ==
    {<<[label |-> "Living Room", groupType |-> "META", devices |-> s1],
       [label |-> "Kitchen", groupType |-> t, devices |-> s2]>> :
        s1 \in DeviceSeqs(w), s2 \in DeviceSeqs(w), t \in GroupTypes}

Snapshots(w) ==
    {gs \in AllSnapshots(w) :
        \A a \in Range(gs[1].devices), b \in Range(gs[2].devices) : a.label # b.label}

\* a traversal that does not look at the group type
RECURSIVE TraversalAllGroups(_)
TraversalAllGroups(gs) ==
    IF gs = <<>> THEN <<>>
    ELSE [i \in DOMAIN Head(gs).devices |-> <<Head(gs).label, Head(gs).devices[i]>>]
         \o TraversalAllGroups(Tail(gs))

\* the (room label, device) pairs collect() visits, lines 270-272
RECURSIVE Traversal(_)
Traversal(gs) ==
    IF gs = <<>> THEN <<>>
    ELSE (IF Head(gs).groupType = "META"
          THEN [i \in DOMAIN Head(gs).devices |-> <<Head(gs).label, Head(gs).devices[i]>>]
          ELSE <<>>)
         \o Traversal(Tail(gs))

Events ==
    {[eventType |-> DEVICE_CHANGED, data |-> ScOpen],
     [eventType |-> DEVICE_CHANGED, data |-> ScClosedSabotage],
     [eventType |-> DEVICE_CHANGED, data |-> TrvZero],
     [eventType |-> DEVICE_REMOVED, data |-> ScOpen]}

MaxCycles == 2

MaxEvents == 2

ApiVersion == <<"1", ".", "2", ".", "4">>


(***************************************************************************)
(* State.                                                                  *)
(***************************************************************************)
VARIABLES
    pc,                   \* where the main thread is: "init_client", "init_metrics",
                          \* "collect_info", "start_http", "loop" (between two
                          \* e.collect() calls), "devices", "except", "finally",
                          \* "exit1" (sys.exit(1)), "crashed" (uncaught exception)
    enable_event_metrics, \* args.enable_event_metrics
    onEvent,              \* how many times the callback was added to home.onEvent
    wsRunning,            \* enable_events() started the client's event thread
    metricsReady,         \* __init_metrics() has created the metric attributes
    reg,                  \* the prometheus registry: series -> value
    world,                \* the device records the access point may report
    groups,               \* home.groups as of the last get_current_state()
    todo,                 \* the (room, device) pairs the running cycle has yet to visit
    propagating,          \* an exception is leaving collect() through `finally`
    handling,             \* the callback is running
    lastEvent,            \* <<the event of the callback's last iteration>>, or <<>>
    handlerRaised,        \* a callback invocation ended by an exception
    cycle,                \* number of collect() calls started
    handled,              \* number of events the callback has iterated over
    delivered,            \* event -> how many times the callback's loop reached it
    written,              \* registry operations of the running/last cycle, in order
    dispatched,           \* <<room, device label, branches run>> of that cycle
    sleeps,               \* time.sleep calls of that cycle
    outcome,              \* "none", "running", "ok", "fetch_failed", "device_failed"
    prevOutcome,          \* outcome of the cycle before
    failed,               \* <<room, device>> whose processing raised, or <<>>
    unchanged,            \* the cycle's snapshot equals the one before
    regAtCycleStart       \* reg when the cycle's collect() was entered

vars ==
    <<pc, enable_event_metrics, onEvent, wsRunning, metricsReady, reg, world, groups,
      todo, propagating, handling, lastEvent, handlerRaised, cycle, handled, delivered,
      written,
      dispatched, sleeps, outcome, prevOutcome, failed, unchanged, regAtCycleStart>>

mainVars ==
    <<pc, onEvent, wsRunning, metricsReady, groups, todo, propagating, cycle, written,
      dispatched, sleeps, outcome, prevOutcome, failed, unchanged, regAtCycleStart>>

cycleVars ==
    <<groups, todo, propagating, cycle, written, dispatched, sleeps, outcome,
      prevOutcome, failed, unchanged, regAtCycleStart>>

eventVars == <<handling, lastEvent, handlerRaised, handled, delivered>>

EmptyRegistry == [k \in {} |-> 0]

InitWith(flags, worlds) ==
    /\ pc = "init_client"
    /\ enable_event_metrics \in flags
    /\ onEvent = 0
    /\ wsRunning = FALSE
    /\ metricsReady = FALSE
    /\ reg = EmptyRegistry
    /\ world \in worlds
    /\ groups = <<>>
    /\ todo = <<>>
    /\ propagating = FALSE
    /\ handling = FALSE
    /\ lastEvent = <<>>
    /\ handlerRaised = FALSE
    /\ cycle = 0
    /\ handled = 0
    /\ delivered = [e \in Events |-> 0]
    /\ written = <<>>
    /\ dispatched = <<>>
    /\ sleeps = 0
    /\ outcome = "none"
    /\ prevOutcome = "none"
    /\ failed = <<>>
    /\ unchanged = FALSE
    /\ regAtCycleStart = EmptyRegistry

\* the whole exporter, event path included
Init == InitWith(BOOLEAN, EventWorlds)

\* the exporter started without --enable-event-metrics
InitPoll == InitWith({FALSE}, Worlds)

Alive == pc \notin {"exit1", "crashed"}

(***************************************************************************)
(* Startup: Exporter.__init__, lines 26-44.                                *)
(***************************************************************************)
\* a client initialisation that subscribes whatever the flag says
InitClientOKAlways ==
    /\ pc = "init_client"
    /\ onEvent' = onEvent + 1
    /\ wsRunning' = TRUE
    /\ pc' = "init_metrics"
    /\ UNCHANGED <<enable_event_metrics, metricsReady, reg, world, cycleVars, eventVars>>

\* __init_client, lines 58-65: the client is initialised; with the flag on,
\* the callback is registered and the client's event thread is started.
InitClientOK ==
    /\ pc = "init_client"
    /\ onEvent' = IF enable_event_metrics THEN onEvent + 1 ELSE onEvent
    /\ wsRunning' = enable_event_metrics
    /\ pc' = "init_metrics"
    /\ UNCHANGED <<enable_event_metrics, metricsReady, reg, world, cycleVars, eventVars>>

\* __init_client, lines 66-70: any exception of the try block: sys.exit(1)
InitClientFail ==
    /\ pc = "init_client"
    /\ pc' = "exit1"
    /\ UNCHANGED <<enable_event_metrics, onEvent, wsRunning, metricsReady, reg, world,
                   cycleVars, eventVars>>

\* __init_metrics, lines 72-163: the metrics exist, without any series
InitMetrics ==
    /\ pc = "init_metrics"
    /\ metricsReady' = TRUE
    /\ pc' = "collect_info"
    /\ UNCHANGED <<enable_event_metrics, onEvent, wsRunning, reg, world, cycleVars,
                   eventVars>>

\* __collect_homematicip_info, lines 165-176
CollectHomematicipInfo ==
    /\ pc = "collect_info"
    /\ reg' = ApplyOps(reg, GaugeSet("version_info", <<ApiVersion>>, Num(1)).w)
    /\ pc' = "start_http"
    /\ UNCHANGED <<enable_event_metrics, onEvent, wsRunning, metricsReady, world,
                   cycleVars, eventVars>>

\* lines 38-39: the HTTP server is listening; the main block enters `while True`
StartHttpOK ==
    /\ pc = "start_http"
    /\ pc' = "loop"
    /\ UNCHANGED <<enable_event_metrics, onEvent, wsRunning, metricsReady, reg, world,
                   cycleVars, eventVars>>

\* lines 40-44: binding the port failed: sys.exit(1)
StartHttpFail ==
    /\ pc = "start_http"
    /\ pc' = "exit1"
    /\ UNCHANGED <<enable_event_metrics, onEvent, wsRunning, metricsReady, reg, world,
                   cycleVars, eventVars>>

(***************************************************************************)
(* collect(), lines 264-296, called from `while True`, lines 329-330.      *)
(***************************************************************************)
\* collect() is entered and get_current_state() returns a snapshot
GetCurrentStateOK ==
    /\ pc = "loop"
    /\ cycle < MaxCycles
    /\ \E gs \in Snapshots(world) :
        /\ groups' = gs
        /\ todo' = Traversal(gs)
        /\ unchanged' = (gs = groups)
        /\ pc' = IF Traversal(gs) = <<>> THEN "finally" ELSE "devices"
        /\ outcome' = IF Traversal(gs) = <<>> THEN "ok" ELSE "running"
    /\ cycle' = cycle + 1
    /\ written' = <<>>
    /\ dispatched' = <<>>
    /\ sleeps' = 0
    /\ prevOutcome' = outcome
    /\ failed' = <<>>
    /\ regAtCycleStart' = reg
    /\ UNCHANGED <<enable_event_metrics, onEvent, wsRunning, metricsReady, reg, world,
                   propagating, eventVars>>

\* collect() is entered and get_current_state() raises
GetCurrentStateFail ==
    /\ pc = "loop"
    /\ cycle < MaxCycles
    /\ pc' = "except"
    /\ outcome' = "fetch_failed"
    /\ cycle' = cycle + 1
    /\ written' = <<>>
    /\ dispatched' = <<>>
    /\ sleeps' = 0
    /\ prevOutcome' = outcome
    /\ failed' = <<>>
    /\ unchanged' = FALSE
    /\ regAtCycleStart' = reg
    /\ UNCHANGED <<enable_event_metrics, onEvent, wsRunning, metricsReady, reg, world,
                   groups, todo, propagating, eventVars>>

\* one iteration of the device loop, lines 272-288
ProcessDevice ==
    /\ pc = "devices"
    /\ LET room == Head(todo)[1]
           d == Head(todo)[2]
           r == CollectDevice(room, d)
       IN /\ reg' = ApplyOps(reg, r.w)
          /\ written' = written \o r.w
          /\ dispatched' = IF CollectDeviceInfoMetrics(room, d).ok
                           THEN Append(dispatched, <<room, d.label, Branches(d)>>)
                           ELSE dispatched
          /\ todo' = Tail(todo)
          /\ failed' = IF r.ok THEN failed ELSE <<room, d>>
          /\ outcome' = IF ~r.ok THEN "device_failed"
                        ELSE IF Tail(todo) = <<>> THEN "ok" ELSE outcome
          /\ pc' = IF ~r.ok THEN "except"
                   ELSE IF Tail(todo) = <<>> THEN "finally" ELSE "devices"
    /\ UNCHANGED <<enable_event_metrics, onEvent, wsRunning, metricsReady, world, groups,
                   propagating, cycle, sleeps, prevOutcome, unchanged, regAtCycleStart,
                   eventVars>>

\* the except block, lines 290-293: building the warning's message
ExceptHandler ==
    /\ pc = "except"
    /\ propagating' = WarningFormatRaises
    /\ pc' = "finally"
    /\ UNCHANGED <<enable_event_metrics, onEvent, wsRunning, metricsReady, reg, world,
                   groups, todo, cycle, written, dispatched, sleeps, outcome, prevOutcome,
                   failed, unchanged, regAtCycleStart, eventVars>>

\* the finally block, lines 294-296: sleep, then collect() returns to the
\* loop, or the pending exception leaves collect() and ends the process
Finally ==
    /\ pc = "finally"
    /\ ~WaitingFormatRaises
    /\ sleeps' = sleeps + 1
    /\ pc' = IF propagating THEN "crashed" ELSE "loop"
    /\ UNCHANGED <<enable_event_metrics, onEvent, wsRunning, metricsReady, reg, world,
                   groups, todo, propagating, cycle, written, dispatched, outcome,
                   prevOutcome, failed, unchanged, regAtCycleStart, eventVars>>

(***************************************************************************)
(* The event path: the client's event thread calls the registered          *)
(* callback with a list of events, lines 243-262.  The callback reads each *)
(* event of its list once, when its loop reaches it.                       *)
(***************************************************************************)
\* the event thread calls the callback with a non-empty list of events
OnEvent ==
    /\ Alive
    /\ wsRunning
    /\ onEvent > 0
    /\ ~handling
    /\ handled < MaxEvents
    /\ handling' = TRUE
    /\ lastEvent' = <<>>
    /\ UNCHANGED <<enable_event_metrics, reg, world, mainVars, handled, delivered,
                   handlerRaised>>

\* One iteration of `for event in eventList`, lines 244-262, on the next
\* event of the list, which may be the last one.  self.metric_device_event
\* exists only once __init_metrics has run: before that, line 253 raises
\* AttributeError, which ends the callback.
HandleEvent ==
    /\ Alive
    /\ handling
    /\ handled' = handled + 1
    /\ \E event \in Events, more \in BOOLEAN :
        LET r == CollectEventMetrics(event)
        IN /\ more => handled + 1 < MaxEvents
           /\ lastEvent' = <<event>>
           /\ delivered' = [delivered EXCEPT ![event] = @ + 1]
           /\ IF r.w # <<>> /\ ~metricsReady
              THEN /\ reg' = reg
                   /\ handling' = FALSE
                   /\ handlerRaised' = TRUE
              ELSE /\ reg' = ApplyOps(reg, r.w)
                   /\ handling' = more
                   /\ handlerRaised' = handlerRaised
    /\ UNCHANGED <<enable_event_metrics, world, mainVars>>

Next ==
    \/ InitClientOK
    \/ InitClientFail
    \/ InitMetrics
    \/ CollectHomematicipInfo
    \/ StartHttpOK
    \/ StartHttpFail
    \/ GetCurrentStateOK
    \/ GetCurrentStateFail
    \/ ProcessDevice
    \/ ExceptHandler
    \/ Finally
    \/ OnEvent
    \/ HandleEvent

Spec == Init /\ [][Next]_vars

NextPoll ==
    \/ InitClientOK
    \/ InitClientFail
    \/ InitMetrics
    \/ CollectHomematicipInfo
    \/ StartHttpOK
    \/ StartHttpFail
    \/ GetCurrentStateOK
    \/ GetCurrentStateFail
    \/ ProcessDevice
    \/ ExceptHandler
    \/ Finally

SpecPoll == InitPoll /\ [][NextPoll]_vars


(***************************************************************************)
(* Vocabulary of the properties.                                           *)
(***************************************************************************)
\* the running or last collect() call has left its try statement
CycleOver == cycle > 0 /\ pc \in {"finally", "loop", "crashed"}

\* the (room, device) pairs of the room-type groups of home.groups
Visited == Range(Traversal(groups))

SetInCycle(metric, labelvalues, v) == <<"set", metric, labelvalues, v>> \in Range(written)

TouchedInCycle(metric, labelvalues) ==
    \E i \in DOMAIN written : written[i][2] = metric /\ written[i][3] = labelvalues

SetCount(metric, labelvalues) ==
    Cardinality({i \in DOMAIN written :
                    /\ written[i][1] = "set"
                    /\ written[i][2] = metric
                    /\ written[i][3] = labelvalues})

Has(r, k, v) == k \in DOMAIN r /\ r[k] = v

SameSeries(r1, r2, k) ==
    /\ k \in DOMAIN r1 <=> k \in DOMAIN r2
    /\ k \in DOMAIN r1 => r1[k] = r2[k]

IsCounter(k) == k[1] \in {"device_event", "group_event"}

DispatchedAs(room, d, bs) == <<room, d.label, bs>> \in Range(dispatched)

(***************************************************************************)
(* C1.  The poll scheduler never exits on a normal poll failure: when      *)
(* get_current_state or the processing of a device raises inside           *)
(* collect(), no exception propagates out of collect() and the loop goes   *)
(* on.  The code's except block raises itself (line 292), so the           *)
(* statement is violated.                                                  *)
(***************************************************************************)
C1_PollFailureNeverExits ==
    outcome \in {"fetch_failed", "device_failed"} => ~propagating /\ pc # "crashed"

(***************************************************************************)
(* C2.  Partial failure containment: when processing device k raised, the  *)
(* cycle has still written the samples of every other device of the        *)
(* room-type groups.  The code leaves the device loop at the first raise,  *)
(* so the statement is violated.                                           *)
(***************************************************************************)
C2_PartialFailureContainment ==
    (CycleOver /\ outcome = "device_failed") =>
        \A p \in Visited \ {failed} :
            \A op \in Range(CollectDevice(p[1], p[2]).w) :
                op[1] = "set" => op \in Range(written)

(***************************************************************************)
(* C3.  A cycle whose fetch fails writes no sample, leaves every series as *)
(* it was, adds and removes none, and the next cycle can then run: once    *)
(* the cycle has slept, the scheduler is back in its loop.  The last part  *)
(* is violated because of the raise of C1.                                 *)
(***************************************************************************)
C3_FetchFailureKeepsSeriesAndLoopGoesOn ==
    outcome = "fetch_failed" =>
        /\ written = <<>>
        /\ reg = regAtCycleStart
        /\ sleeps > 0 => pc = "loop"

\* the part of C3 about the registry alone; it holds
FetchFailureWritesNothing ==
    outcome = "fetch_failed" => written = <<>> /\ reg = regAtCycleStart

(***************************************************************************)
(* C4.  Every device dispatched as heating valve in a successful cycle has *)
(* all five gauges written under (room, device_label) with the device's    *)
(* values, also when a value is exactly 0 or false.                        *)
(***************************************************************************)
HeatingFields ==
    {<<"temperature_actual", "valveActualTemperature">>,
     <<"temperature_setpoint", "setPointTemperature">>,
     <<"valve_adaption_needed", "automaticValveAdaptionNeeded">>,
     <<"temperature_offset", "temperatureOffset">>,
     <<"valve_position", "valvePosition">>}

C4_HeatingWritesAllFive ==
    (CycleOver /\ outcome = "ok") =>
        \A p \in Visited :
            DispatchedAs(p[1], p[2], <<"heating">>) =>
                \A f \in HeatingFields :
                    /\ SetInCycle(f[1], <<p[1], p[2].label>>, p[2][f[2]].n)
                    /\ Has(reg, <<f[1], <<p[1], p[2].label>>>>, p[2][f[2]].n)

\* a successful cycle over a valve whose five values are all 0 / False
C4_Witness ==
    /\ CycleOver
    /\ outcome = "ok"
    /\ <<"Living Room", TrvZero>> \in Visited
    /\ DispatchedAs("Living Room", TrvZero, <<"heating">>)
    /\ Has(reg, <<"valve_position", <<"Living Room", "TRV-1">>>>, 0)

(***************************************************************************)
(* C5.  For a device dispatched as thermostat, each of actual temperature, *)
(* setpoint temperature and humidity is decided on its own: its gauge is   *)
(* written iff the value is present and not exactly 0; otherwise the       *)
(* series is left as it was before the cycle.                              *)
(***************************************************************************)
ThermostatFields ==
    {<<"temperature_actual", "actualTemperature">>,
     <<"temperature_setpoint", "setPointTemperature">>,
     <<"humidity_actual", "humidity">>}

PresentNonZero(v) == v.t # "none" /\ v.n # 0

C5_ThermostatFieldsIndividually ==
    \A p \in Visited :
        DispatchedAs(p[1], p[2], <<"thermostat">>) =>
            \A f \in ThermostatFields :
                IF PresentNonZero(p[2][f[2]])
                THEN /\ SetInCycle(f[1], <<p[1], p[2].label>>, p[2][f[2]].n)
                     /\ Has(reg, <<f[1], <<p[1], p[2].label>>>>, p[2][f[2]].n)
                ELSE /\ ~TouchedInCycle(f[1], <<p[1], p[2].label>>)
                     /\ SameSeries(reg, regAtCycleStart, <<f[1], <<p[1], p[2].label>>>>)

\* second cycle: the thermostat now reports setpoint 0 and no humidity; the
\* actual temperature is written, the other two series keep the values of
\* the cycle before
C5_Witness ==
    /\ cycle > 1
    /\ DispatchedAs("Living Room", WthA, <<"thermostat">>)
    /\ <<"Living Room", WthA>> \in Visited
    /\ Has(reg, <<"temperature_actual", <<"Living Room", "WTH-1">>>>, 21)
    /\ Has(reg, <<"temperature_setpoint", <<"Living Room", "WTH-1">>>>, 21)
    /\ Has(reg, <<"humidity_actual", <<"Living Room", "WTH-1">>>>, 45)


(***************************************************************************)
(* C6.  Capability dispatch is exclusive and prioritised: at most one of   *)
(* the branches thermostat, heating valve, measuring switch, plain switch  *)
(* runs for a device, the first one in that order that matches; a          *)
(* measuring switch has power_consumption, energy_counter and switch       *)
(* written by the measuring-switch branch alone, so each is set exactly    *)
(* once in the cycle.                                                      *)
(***************************************************************************)
Priority == <<"thermostat", "heating", "switch_measuring", "switch">>

Matches(d, b) ==
    CASE b = "thermostat" -> IsInstance(d, ThermostatClasses)
      [] b = "heating" -> IsInstance(d, {"HeatingThermostat"})
      [] b = "switch_measuring" -> IsInstance(d, {"SwitchMeasuring"})
      [] OTHER -> IsInstance(d, {"Switch"})

FirstMatch(d) ==
    LET I == {i \in DOMAIN Priority : Matches(d, Priority[i])}
    IN IF I = {} THEN <<>>
       ELSE <<Priority[CHOOSE i \in I : \A j \in I : i <= j]>>

C6_DispatchExclusive ==
    \A p \in Visited : \A e \in Range(dispatched) :
        (e[1] = p[1] /\ e[2] = p[2].label) =>
            /\ Len(e[3]) <= 1
            /\ e[3] = FirstMatch(p[2])
            /\ (Matches(p[2], "switch_measuring") /\ p # failed) =>
                  /\ e[3] = <<"switch_measuring">>
                  /\ SetCount("power_consumption", <<p[1], p[2].label>>) = 1
                  /\ SetCount("energy_counter", <<p[1], p[2].label>>) = 1
                  /\ SetCount("switch", <<p[1], p[2].label>>) = 1

\* a measuring switch, which is a Switch too, has been processed
C6_Witness ==
    /\ <<"Kitchen", Psm>> \in Visited
    /\ DispatchedAs("Kitchen", Psm, <<"switch_measuring">>)
    /\ Matches(Psm, "switch")
    /\ Has(reg, <<"switch", <<"Kitchen", "PSM-1">>>>, 1)

(***************************************************************************)
(* C7.  In a successful cycle every device of a room-type group gets the   *)
(* generic device-info treatment, whatever its class: device_info is 1     *)
(* under (room, label, lower-cased type, firmware, reachability), and      *)
(* last_status_update is written iff the device has a last-update          *)
(* timestamp.                                                              *)
(***************************************************************************)
InfoLabels(room, d) ==
    <<room, d.label, Lower(d.deviceType.s), PyStr(d.firmwareVersion),
      PyStr(d.permanentlyReachable)>>

C7_DeviceInfoForEveryDevice ==
    (CycleOver /\ outcome = "ok") =>
        \A p \in Visited :
            /\ SetInCycle("device_info", InfoLabels(p[1], p[2]), 1)
            /\ Has(reg, <<"device_info", InfoLabels(p[1], p[2])>>, 1)
            /\ TouchedInCycle("last_status_update", <<p[1], p[2].label>>)
                  <=> p[2].lastStatusUpdate.t = "datetime"
            /\ p[2].lastStatusUpdate.t = "datetime" =>
                  Has(reg, <<"last_status_update", <<p[1], p[2].label>>>>,
                      p[2].lastStatusUpdate.n)

\* a successful cycle over a contact sensor, which no capability branch
\* matches, and over a device without last-update timestamp
C7_Witness ==
    /\ CycleOver
    /\ outcome = "ok"
    /\ <<"Living Room", ScOpen>> \in Visited
    /\ <<"Kitchen", Ps>> \in Visited
    /\ DispatchedAs("Living Room", ScOpen, <<>>)
    /\ Has(reg, <<"device_info",
                  <<"Living Room", "SC-1", <<"s", "c">>, <<"1", ".", "0">>,
                    <<"F", "a", "l", "s", "e">>>>>>, 1)
    /\ <<"last_status_update", <<"Kitchen", "PS-1">>>> \notin DOMAIN reg

(***************************************************************************)
(* C8.  Idempotence of polling: after two consecutive successful cycles    *)
(* over an unchanged snapshot the registry holds exactly the series and    *)
(* values it held after the first of them.                                 *)
(***************************************************************************)
C8_PollIdempotent ==
    (CycleOver /\ outcome = "ok" /\ prevOutcome = "ok" /\ unchanged) =>
        reg = regAtCycleStart

\* the second of two successful cycles over the same snapshot has written
C8_Witness ==
    /\ CycleOver
    /\ outcome = "ok"
    /\ prevOutcome = "ok"
    /\ unchanged
    /\ \E i \in DOMAIN written : written[i][1] = "set" /\ written[i][2] = "switch"


(***************************************************************************)
(* C9.  Event counters never decrease, and a callback invocation on one    *)
(* DEVICE_CHANGED event with a contact-sensor payload increments exactly   *)
(* the device_event series labelled (device label, lower-cased event type, *)
(* lower-cased window state, lower-cased sabotage) by exactly 1 and        *)
(* changes no other series.  The callback is registered and the event      *)
(* thread started (lines 64-65) before __init_metrics (line 36) creates    *)
(* metric_device_event: an event handled in between increments nothing,    *)
(* so the statement is violated.                                           *)
(***************************************************************************)
CountersMonotone ==
    \A k \in DOMAIN reg : IsCounter(k) => k \in DOMAIN reg' /\ reg'[k] >= reg[k]

\* reg' is reg with series k one higher (created at 1 when it did not exist)
IncrementedAt(k) ==
    /\ DOMAIN reg' = DOMAIN reg \cup {k}
    /\ reg'[k] = (IF k \in DOMAIN reg THEN reg[k] ELSE 0) + 1
    /\ \A x \in DOMAIN reg \ {k} : reg'[x] = reg[x]

ContactEventCounted ==
    (handled' = handled + 1 /\ EventMatches(lastEvent'[1])) =>
        IncrementedAt(<<"device_event", EventLabels(lastEvent'[1])>>)

C9_EventCounters == [][CountersMonotone /\ ContactEventCounted]_vars

\* the same, for the events handled once the metrics exist; it holds
EventCountersOnceMetricsExist ==
    [][CountersMonotone /\ (metricsReady => ContactEventCounted)]_vars

(***************************************************************************)
(* C10.  No step removes a series, a step changes only the series it       *)
(* writes to, and a device that is absent from the snapshot of a cycle     *)
(* keeps every gauge series it had, with the value it had when the cycle   *)
(* began.                                                                  *)
(***************************************************************************)
\* the series the step's registry operations address
StepKeys ==
    (IF cycle' = cycle
     THEN {Key(written'[i]) : i \in (Len(written) + 1)..Len(written')}
     ELSE {})
    \cup (IF handled' # handled
          THEN {<<"device_event", EventLabels(lastEvent'[1])>>}
          ELSE {})

OfVisitedDevice(k) ==
    /\ Len(k[2]) >= Len(<<"room", "device_label">>)
    /\ \E p \in Visited : k[2][1] = p[1] /\ k[2][2] = p[2].label

AbsentDevicesKeepSeries ==
    \A k \in DOMAIN regAtCycleStart :
        (~IsCounter(k) /\ ~OfVisitedDevice(k)) => Has(reg, k, regAtCycleStart[k])

C10_SeriesOnlyGrow ==
    [][/\ \A k \in DOMAIN reg : k \in DOMAIN reg' /\ (reg'[k] # reg[k] => k \in StepKeys)
       /\ AbsentDevicesKeepSeries']_vars

\* second cycle, after an event: the thermostat has moved from the living
\* room to the kitchen; its living-room series are still there
C10_Witness ==
    /\ cycle > 1
    /\ CycleOver
    /\ outcome = "ok"
    /\ handled > 0
    /\ \A p \in Visited : p[1] # "Living Room"
    /\ <<"Kitchen", WthA>> \in Visited
    /\ Has(reg, <<"temperature_actual", <<"Kitchen", "WTH-1">>>>, 21)
    /\ Has(reg, <<"temperature_actual", <<"Living Room", "WTH-1">>>>, 21)
    /\ Has(reg, <<"last_status_update", <<"Living Room", "WTH-1">>>>, 100)


(***************************************************************************)
(* C11.  Startup failures are fatal and nothing else is: a failure of the  *)
(* client initialisation or of binding the HTTP port ends the process with *)
(* status 1 before any poll cycle has started, and once startup has        *)
(* completed nothing ends the process.  The first failed poll cycle ends   *)
(* it (the {1} replacement field of line 292, see C1), so the statement is *)
(* violated.                                                               *)
(***************************************************************************)
StartupCompleted == pc \notin {"init_client", "init_metrics", "collect_info", "start_http", "exit1"}

C11_OnlyStartupIsFatal ==
    /\ pc = "exit1" => cycle = 0
    /\ StartupCompleted => Alive

\* the half about startup; it holds
StartupFailureExitsBeforeAnyCycle ==
    [][/\ pc' = "exit1" => cycle' = 0 /\ reg' = reg
       /\ pc = "exit1" => pc' = "exit1"]_vars

(***************************************************************************)
(* C12.  With the flag off the callback is never registered and no         *)
(* device_event or group_event series ever exists; with the flag on the    *)
(* callback is registered exactly once, by the time __init_client has      *)
(* returned, hence before the first collect().                             *)
(***************************************************************************)
C12_EventAdapterOnlyIfEnabled ==
    /\ ~enable_event_metrics =>
        /\ onEvent = 0
        /\ ~wsRunning
        /\ handled = 0 /\ ~handling
        /\ \A k \in DOMAIN reg : ~IsCounter(k)
    /\ enable_event_metrics =>
        /\ onEvent <= 1
        /\ (pc \in {"init_metrics", "collect_info", "start_http"} \/ cycle > 0) => onEvent = 1
        /\ onEvent = 0 => pc \in {"init_client", "exit1"}

\* flag on: registered once, a cycle has run, and an event has been counted
C12_Witness ==
    /\ enable_event_metrics
    /\ onEvent = 1
    /\ CycleOver
    /\ written # <<>>
    /\ \E k \in DOMAIN reg : IsCounter(k) /\ reg[k] > 0

\* flag off: two cycles have run and written gauges, nothing is registered
FlagOffAfterTwoCycles ==
    ~enable_event_metrics /\ cycle > 1 /\ CycleOver /\ written # <<>> /\ onEvent = 0


(***************************************************************************)
(* C13.  After successful poll cycles, each (room, device label) of the    *)
(* snapshot has exactly one device_info series at 1: the one carrying the  *)
(* type, firmware version and reachability the device reports now.         *)
(* Nothing in collect() removes or resets the series written under the     *)
(* label values of an earlier cycle, so the statement is violated.         *)
(***************************************************************************)
DeviceInfoAtOne(room, label) ==
    {k \in DOMAIN reg :
        /\ k[1] = "device_info"
        /\ k[2][1] = room
        /\ k[2][2] = label
        /\ reg[k] = 1}

C13_OneCurrentDeviceInfo ==
    (CycleOver /\ outcome = "ok" /\ prevOutcome \in {"none", "ok"}) =>
        \A p \in Visited :
            DeviceInfoAtOne(p[1], p[2].label) = {<<"device_info", InfoLabels(p[1], p[2])>>}


(***************************************************************************)
(* C14.  Only groups whose groupType is "META" are traversed: a cycle      *)
(* writes no sample whose room label is the label of a group of another    *)
(* type, and a device that is only in groups of other types gets no        *)
(* sample in that cycle.                                                   *)
(***************************************************************************)
\* room label and device label of a registry operation of the poll path
RoomOf(op) == op[3][1]

DeviceLabelOf(op) == op[3][2]

InRoomGroup(d) ==
    \E j \in DOMAIN groups : groups[j].groupType = "META" /\ d \in Range(groups[j].devices)

C14_OnlyRoomGroupsTraversed ==
    (cycle > 0 /\ outcome # "fetch_failed") =>
        \A i \in DOMAIN groups :
            groups[i].groupType # "META" =>
                /\ \A op \in Range(written) : RoomOf(op) # groups[i].label
                /\ \A d \in Range(groups[i].devices) :
                       ~InRoomGroup(d) =>
                           \A op \in Range(written) : DeviceLabelOf(op) # d.label

\* a completed cycle over a room with the thermostat and a heating group
\* with the valve: the thermostat is written, the valve is not
C14_Witness ==
    /\ CycleOver
    /\ outcome = "ok"
    /\ groups[1].devices = <<WthA>>
    /\ groups[2].groupType = "HEATING"
    /\ groups[2].devices = <<TrvOpen>>
    /\ SetInCycle("temperature_actual", <<"Living Room", "WTH-1">>, 21)
    /\ \A k \in DOMAIN reg : k[1] = "version_info" \/ k[2][2] # "TRV-1"


(***************************************************************************)
(* C15.  Every collect() sleeps exactly once, after all registry writes of *)
(* its cycle and never between two of them, whatever the cycle's outcome;  *)
(* and the outcome does not change how the next cycle is scheduled: after  *)
(* the sleep, control is back in the loop.  The sleep half holds; after a  *)
(* failed cycle control never returns to the loop (the {1} replacement     *)
(* field of line 292, see C1), so the statement is violated.               *)
(***************************************************************************)
InsideTry == pc \in {"devices", "except", "finally"}

CollectLeft == cycle > 0 /\ ~InsideTry

C15_SleepOncePerCycle ==
    /\ InsideTry => sleeps = 0
    /\ CollectLeft => sleeps = 1 /\ pc = "loop"

\* the half about the sleep: no sleep before the try statement is left, one
\* sleep once collect() is left, and no write of the cycle after it; it holds
SleepsOnceAfterAllWrites ==
    /\ [](InsideTry => sleeps = 0)
    /\ [](CollectLeft => sleeps = 1)
    /\ [][(sleeps = 1 /\ cycle' = cycle) => written' = written]_vars


(***************************************************************************)
(* C16.  The poll path only sets gauges and the event path only increments *)
(* device_event, and increments commute: the value of every counter series *)
(* is the number of contact-sensor DEVICE_CHANGED events with its label    *)
(* values that were delivered, whatever their order, their split into      *)
(* batches and their interleaving with the poll; and no event step changes *)
(* a gauge series.  An event delivered before __init_metrics has run is    *)
(* not counted (see C9), so the counter values depend on when the events   *)
(* arrive and the statement is violated.                                   *)
(***************************************************************************)
RECURSIVE SumDelivered(_)
SumDelivered(es) ==
    IF es = {} THEN 0
    ELSE LET e == CHOOSE x \in es : TRUE
         IN delivered[e] + SumDelivered(es \ {e})

\* how many delivered events ask for an increment of series k
DeliveredFor(k) ==
    SumDelivered({e \in Events : EventMatches(e) /\ <<"device_event", EventLabels(e)>> = k})

CounterValue(r, k) == IF k \in DOMAIN r THEN r[k] ELSE 0

CounterKeys ==
    {<<"device_event", EventLabels(e)>> : e \in {x \in Events : EventMatches(x)}}
    \cup {k \in DOMAIN reg : IsCounter(k)}

GaugeKeys(r) == {k \in DOMAIN r : ~IsCounter(k)}

EventStepKeepsGauges ==
    handled' # handled =>
        /\ GaugeKeys(reg') = GaugeKeys(reg)
        /\ \A k \in GaugeKeys(reg) : reg'[k] = reg[k]

PollStepKeepsCounters ==
    handled' = handled =>
        /\ \A k \in CounterKeys : CounterValue(reg', k) = CounterValue(reg, k)
        /\ \A op \in Range(written') : op[1] \in {"labels", "set"} /\ ~IsCounter(Key(op))

C16_PathsDisjointCountersCommute ==
    /\ [](\A k \in CounterKeys : CounterValue(reg, k) = DeliveredFor(k))
    /\ [][EventStepKeepsGauges /\ PollStepKeepsCounters]_vars

\* the same for the events delivered once the metrics exist; it holds
CountersCommuteOnceMetricsExist ==
    [][/\ EventStepKeepsGauges
       /\ PollStepKeepsCounters
       /\ metricsReady =>
            \A k \in CounterKeys :
                CounterValue(reg', k) - CounterValue(reg, k) = DeliveredFor(k)' - DeliveredFor(k)]_vars


(***************************************************************************)
(* C17.  An event whose type is not DEVICE_CHANGED, or whose payload is    *)
(* not a contact sensor, is ignored without error: it changes no series    *)
(* and raises nothing, and a contact-sensor DEVICE_CHANGED event that      *)
(* follows it in the same batch is still counted.  In a batch handled      *)
(* before __init_metrics has run the following event is not counted (see   *)
(* C9), so the statement is violated.                                      *)
(***************************************************************************)
\* the callback's loop has just stepped over an event it does not count
AfterIgnoredEvent == handling /\ lastEvent # <<>> /\ ~EventMatches(lastEvent[1])

IgnoredEventChangesNothing ==
    (handled' # handled /\ ~EventMatches(lastEvent'[1])) =>
        reg' = reg /\ handlerRaised' = handlerRaised

LaterEventStillCounted ==
    (AfterIgnoredEvent /\ handled' # handled /\ EventMatches(lastEvent'[1])) =>
        /\ IncrementedAt(<<"device_event", EventLabels(lastEvent'[1])>>)
        /\ handlerRaised' = handlerRaised

C17_OtherEventsIgnored == [][IgnoredEventChangesNothing /\ LaterEventStillCounted]_vars

\* the same for the batches handled once the metrics exist; it holds
OtherEventsIgnoredOnceMetricsExist ==
    [][IgnoredEventChangesNothing /\ (metricsReady => LaterEventStillCounted)]_vars

\* a batch of a DEVICE_REMOVED event followed by a counted contact-sensor
\* event has been handled after startup
IgnoredThenCounted ==
    /\ metricsReady
    /\ ~handlerRaised
    /\ handled = MaxEvents
    /\ delivered[[eventType |-> DEVICE_REMOVED, data |-> ScOpen]] > 0
    /\ \E k \in DOMAIN reg : IsCounter(k) /\ reg[k] > 0

====
